---------------------------- MODULE Spec2Model ----------------------------
(***************************************************************************)
(* A model of the work-timer application (src/src/App.tsx): the interval   *)
(* arithmetic (timeToMinutes, calculateOverlapCorrected,                   *)
(* calculateWorkHours), the monthly dashboard (dashboardStats), the clock  *)
(* status (realTimeStatus) and the record handlers (handleAddRecord,       *)
(* handleDeleteRecord, handleSettingsChange).                              *)
(*                                                                         *)
(* Strings of the program ("HH:mm", "YYYY-MM-DD") are sequences of         *)
(* one-character strings, so that parsing and formatting are computed.     *)
(* JavaScript numbers that hold hours are exact rationals here, kept in    *)
(* lowest terms as [num, den]; IEEE rounding is not modelled.              *)
(***************************************************************************)
EXTENDS Integers, Sequences, FiniteSets, TLC

VARIABLES
    records,         \* useStickyState<WorkRecord[]>([], "workTimer:records")
    settings,        \* useStickyState<AppSettings>(DEFAULT_SETTINGS, ...)
    uuidsDrawn,      \* how many ids crypto.randomUUID() has handed out
    dashboardStats,  \* the memoised dashboard value of the last render
    tzOffset,        \* the host's zone, minutes east of UTC (read by getDay)
    today,           \* new Date().toISOString().split("T")[0], the UTC date
    nowMins,         \* now.getHours() * 60 + now.getMinutes()
    realTimeStatus,  \* the memoised countdown value of the last render
    call,            \* arguments of a pure function under test
    ret              \* <<>> before the call, <<value>> after it

vars == <<records, settings, uuidsDrawn, dashboardStats, tzOffset, today,
          nowMins, realTimeStatus, call, ret>>

-----------------------------------------------------------------------------
(* Bounds of the model.                                                    *)

\* Largest minute value given to the overlap function under test.
MaxMinute == 5
\* Ids crypto.randomUUID() may hand out in one behaviour.
MaxUuid == 3

-----------------------------------------------------------------------------
(* Arithmetic helpers: Math.max, Math.min, exact rationals.                *)

Max(a, b) == IF a >= b THEN a ELSE b
Min(a, b) == IF a <= b THEN a ELSE b
Abs(a) == IF a < 0 THEN -a ELSE a

RECURSIVE Gcd(_, _)
Gcd(a, b) == IF b = 0 THEN a ELSE Gcd(b, a % b)

\* The rational n / d (d > 0) in lowest terms.
Rat(n, d) ==
    LET g == Gcd(Abs(n), d)
    IN  [num |-> n \div g, den |-> d \div g]

RatInt(n) == Rat(n, 1)
RatAdd(a, b) == Rat(a.num * b.den + b.num * a.den, a.den * b.den)
RatSub(a, b) == Rat(a.num * b.den - b.num * a.den, a.den * b.den)
RatLe(a, b) == a.num * b.den <= b.num * a.den
RatMin(a, b) == IF RatLe(a, b) THEN a ELSE b
RatMax(a, b) == IF RatLe(b, a) THEN a ELSE b
RatDivInt(a, k) == Rat(a.num, a.den * k)

-----------------------------------------------------------------------------
(* Strings.                                                                *)

Digits == <<"0", "1", "2", "3", "4", "5", "6", "7", "8", "9">>

DigitVal(c) == (CHOOSE i \in 1..10 : Digits[i] = c) - 1

\* Number(str) for a string of decimal digits; Number("") is 0.
RECURSIVE Number(_)
Number(str) ==
    IF str = <<>> THEN 0
    ELSE Number(SubSeq(str, 1, Len(str) - 1)) * 10 + DigitVal(str[Len(str)])

\* String(n) for an integer n >= 0.
RECURSIVE String(_)
String(n) ==
    IF n < 10 THEN <<Digits[n + 1]>>
    ELSE String(n \div 10) \o <<Digits[(n % 10) + 1]>>

\* str.padStart(width, "0")
RECURSIVE padStart(_, _)
padStart(str, width) ==
    IF Len(str) >= width THEN str ELSE padStart(<<"0">> \o str, width)

\* str.split(sep) for a one-character separator.
RECURSIVE split(_, _)
split(str, sep) ==
    IF \A i \in 1..Len(str) : str[i] # sep THEN <<str>>
    ELSE LET i == CHOOSE k \in 1..Len(str) :
                      str[k] = sep /\ \A j \in 1..(k - 1) : str[j] # sep
         IN  <<SubSeq(str, 1, i - 1)>> \o split(SubSeq(str, i + 1, Len(str)), sep)

\* str.startsWith(prefix)
startsWith(str, prefix) ==
    /\ Len(prefix) <= Len(str)
    /\ SubSeq(str, 1, Len(prefix)) = prefix

\* The "YYYY-MM-DD" text of a calendar date, as a date input and
\* toISOString() write it.
IsoDate(y, m, d) ==
    padStart(String(y), 4) \o <<"-">> \o padStart(String(m), 2)
        \o <<"-">> \o padStart(String(d), 2)

-----------------------------------------------------------------------------
(* Helper functions of App.tsx.                                            *)

timeToMinutes(timeStr) ==
    IF timeStr = <<>> THEN 0
    ELSE LET parts == split(timeStr, ":")
         IN  Number(parts[1]) * 60 + Number(parts[2])

calculateOverlapWrongSign(start1, end1, start2, end2) ==
    Min(end1, end2) - Max(start1, start2)

calculateOverlapCorrected(start1, end1, start2, end2) ==
    LET overlapStart == Max(start1, start2)
        overlapEnd == Min(end1, end2)
    IN  IF overlapStart < overlapEnd THEN overlapEnd - overlapStart ELSE 0

\* calculateWorkHours calls calculateOverlap, a name App.tsx does not
\* define; it is taken from the specification's overlap sub-algorithm.
calculateOverlap(s1, e1, s2, e2) == Max(0, Min(e1, e2) - Max(s1, s2))

minutesToHHMM(totalMinutes) ==
    LET hours == totalMinutes \div 60
        minutes == totalMinutes % 60
    IN  padStart(String(hours), 2) \o <<":">> \o padStart(String(minutes), 2)

\* The value of a time input showing h:m.
HHMM(h, m) == minutesToHHMM(h * 60 + m)

DEFAULT_SETTINGS ==
    [ normalLunchStart |-> HHMM(12, 0),
      normalLunchEnd |-> HHMM(13, 30),
      normalDinnerStart |-> HHMM(17, 30),
      normalDinnerEnd |-> HHMM(18, 0),
      overtimeLunchStart |-> HHMM(12, 0),
      overtimeLunchEnd |-> HHMM(13, 30),
      requiredStart |-> HHMM(9, 0),
      requiredEnd |-> HHMM(17, 30),
      requiredDailyHours |-> 8 ]

-----------------------------------------------------------------------------
(* calculateWorkHours: the net hours of one record.                        *)

calculateWorkHoursNoCap(record, appSettings) ==
    LET startMins == timeToMinutes(record.startTime)
        endMins == timeToMinutes(record.endTime)
        breakMins ==
            IF record.dayType = "normal"
            THEN calculateOverlap(startMins, endMins,
                                  timeToMinutes(appSettings.normalLunchStart),
                                  timeToMinutes(appSettings.normalLunchEnd))
                 + calculateOverlap(startMins, endMins,
                                    timeToMinutes(appSettings.normalDinnerStart),
                                    timeToMinutes(appSettings.normalDinnerEnd))
            ELSE calculateOverlap(startMins, endMins,
                                  timeToMinutes(appSettings.overtimeLunchStart),
                                  timeToMinutes(appSettings.overtimeLunchEnd))
    IN  IF endMins <= startMins THEN RatInt(0)
        ELSE Rat((endMins - startMins) - breakMins, 60)

calculateWorkHoursDinnerOnOvertime(record, appSettings) ==
    LET startMins == timeToMinutes(record.startTime)
        endMins == timeToMinutes(record.endTime)
        lunch == IF record.dayType = "normal"
                 THEN calculateOverlap(startMins, endMins,
                                       timeToMinutes(appSettings.normalLunchStart),
                                       timeToMinutes(appSettings.normalLunchEnd))
                 ELSE calculateOverlap(startMins, endMins,
                                       timeToMinutes(appSettings.overtimeLunchStart),
                                       timeToMinutes(appSettings.overtimeLunchEnd))
        dinner == calculateOverlap(startMins, endMins,
                                   timeToMinutes(appSettings.normalDinnerStart),
                                   timeToMinutes(appSettings.normalDinnerEnd))
        netWorkHours == Rat((endMins - startMins) - (lunch + dinner), 60)
    IN  IF endMins <= startMins THEN RatInt(0)
        ELSE IF record.dayType = "overtime"
             THEN RatMin(netWorkHours, RatInt(8))
             ELSE netWorkHours

calculateWorkHours(record, appSettings) ==
    LET startMins == timeToMinutes(record.startTime)
        endMins == timeToMinutes(record.endTime)
        totalDurationMins == endMins - startMins
        breakMins ==
            IF record.dayType = "normal"
            THEN calculateOverlap(startMins, endMins,
                                  timeToMinutes(appSettings.normalLunchStart),
                                  timeToMinutes(appSettings.normalLunchEnd))
                 + calculateOverlap(startMins, endMins,
                                    timeToMinutes(appSettings.normalDinnerStart),
                                    timeToMinutes(appSettings.normalDinnerEnd))
            ELSE calculateOverlap(startMins, endMins,
                                  timeToMinutes(appSettings.overtimeLunchStart),
                                  timeToMinutes(appSettings.overtimeLunchEnd))
        netWorkMins == totalDurationMins - breakMins
        netWorkHours == Rat(netWorkMins, 60)
    IN  IF endMins <= startMins THEN RatInt(0)
        ELSE IF record.dayType = "overtime"
             THEN RatMin(netWorkHours, RatInt(8))
             ELSE netWorkHours

-----------------------------------------------------------------------------
(* new Date(dateStr).getDay(): a date-only ISO string is parsed as         *)
(* midnight UTC, and getDay() reads the weekday in the host's zone.        *)

\* Days from 1970-01-01 to the civil date y-m-d (proleptic Gregorian).
DaysFromCivil(y, m, d) ==
    LET yy == IF m <= 2 THEN y - 1 ELSE y
        era == yy \div 400
        yoe == yy - era * 400
        mp == IF m > 2 THEN m - 3 ELSE m + 9
        doy == (153 * mp + 2) \div 5 + d - 1
        doe == yoe * 365 + yoe \div 4 - yoe \div 100 + doy
    IN  era * 146097 + doe - 719468

\* Minutes from the epoch to midnight UTC of the date the string names.
DateParse(dateStr) ==
    LET parts == split(dateStr, "-")
    IN  DaysFromCivil(Number(parts[1]), Number(parts[2]), Number(parts[3])) * 1440

\* 0 = Sunday ... 6 = Saturday; 1970-01-01 was a Thursday.
getDay(dateStr, zone) ==
    (((DateParse(dateStr) + zone) \div 1440) + 4) % 7

-----------------------------------------------------------------------------
(* dashboardStats: the statistics of the current month.                    *)

\* records.reduce((sum, r) => sum + calculateWorkHours(r, settings), 0)
RECURSIVE sumWorkHours(_, _)
sumWorkHours(rs, appSettings) ==
    IF rs = <<>> THEN RatInt(0)
    ELSE RatAdd(sumWorkHours(SubSeq(rs, 1, Len(rs) - 1), appSettings),
                calculateWorkHours(rs[Len(rs)], appSettings))

currentMonthOf(isoDate) == SubSeq(isoDate, 1, 7)

monthRecordsAll(rs, isoDate) == rs

monthRecordsOf(rs, isoDate) ==
    LET inMonth(r) == startsWith(r.date, currentMonthOf(isoDate))
    IN  SelectSeq(rs, inMonth)

normalWorkDaysAnyType(rs) == rs

normalWorkDaysOf(rs) ==
    LET isNormal(r) == r.dayType = "normal"
    IN  SelectSeq(rs, isNormal)

overtimeDaysOf(rs) ==
    LET isOvertime(r) == r.dayType = "overtime"
    IN  SelectSeq(rs, isOvertime)

weekendDaysOf(rs, zone) ==
    LET isWeekend(r) == getDay(r.date, zone) = 0 \/ getDay(r.date, zone) = 6
    IN  SelectSeq(rs, isWeekend)

computeDashboardStats(rs, appSettings, isoDate, zone) ==
    LET monthRecords == monthRecordsOf(rs, isoDate)
        normalWorkDays == normalWorkDaysOf(monthRecords)
        overtimeDays == overtimeDaysOf(monthRecords)
        totalWorkedDays == Len(normalWorkDays)
        totalNormalHours == sumWorkHours(normalWorkDays, appSettings)
        requiredTotalHours == RatInt(totalWorkedDays * appSettings.requiredDailyHours)
    IN  [ totalWorkedDays |-> totalWorkedDays,
          avgDailyHours |->
              IF totalWorkedDays > 0
              THEN RatDivInt(totalNormalHours, totalWorkedDays)
              ELSE RatInt(0),
          totalOvertimeHours |-> sumWorkHours(overtimeDays, appSettings),
          weekendOvertimeHours |->
              sumWorkHours(weekendDaysOf(overtimeDays, zone), appSettings),
          deficitHours |->
              RatMax(RatInt(0), RatSub(requiredTotalHours, totalNormalHours)) ]

-----------------------------------------------------------------------------
(* realTimeStatus: the countdown message.  text is "until-start" for       *)
(* the message counting down to the shift's start, "until-end" for the     *)
(* one counting down to its end, "after-end" for the default message;      *)
(* time is the HH:mm text the message embeds.  The currentTime field, a    *)
(* locale rendering of the clock, is left out.                             *)

computeRealTimeStatusInclusive(nowMinutes, appSettings) ==
    LET requiredStartMins == timeToMinutes(appSettings.requiredStart)
        requiredEndMins == timeToMinutes(appSettings.requiredEnd)
    IN  IF nowMinutes <= requiredStartMins
        THEN [text |-> "until-start",
              time |-> minutesToHHMM(requiredStartMins - nowMinutes)]
        ELSE IF nowMinutes <= requiredEndMins
        THEN [text |-> "until-end",
              time |-> minutesToHHMM(requiredEndMins - nowMinutes)]
        ELSE [text |-> "after-end", time |-> <<>>]

computeRealTimeStatus(nowMinutes, appSettings) ==
    LET requiredStartMins == timeToMinutes(appSettings.requiredStart)
        requiredEndMins == timeToMinutes(appSettings.requiredEnd)
    IN  IF nowMinutes < requiredStartMins
        THEN [text |-> "until-start",
              time |-> minutesToHHMM(requiredStartMins - nowMinutes)]
        ELSE IF nowMinutes < requiredEndMins
        THEN [text |-> "until-end",
              time |-> minutesToHHMM(requiredEndMins - nowMinutes)]
        ELSE [text |-> "after-end", time |-> <<>>]

-----------------------------------------------------------------------------
(* The record handlers.                                                    *)

\* Rank of a character in the collation order: punctuation before digits.
CharRank(c) == IF c = "-" \/ c = ":" THEN 0 ELSE DigitVal(c) + 1

\* a.localeCompare(b): negative, zero or positive.
RECURSIVE localeCompare(_, _)
localeCompare(a, b) ==
    IF a = <<>> /\ b = <<>> THEN 0
    ELSE IF a = <<>> THEN -1
    ELSE IF b = <<>> THEN 1
    ELSE IF CharRank(a[1]) # CharRank(b[1])
         THEN CharRank(a[1]) - CharRank(b[1])
         ELSE localeCompare(Tail(a), Tail(b))

\* Put r into the date-sorted rs, after every record that does not
\* compare greater (the sort is stable).
RECURSIVE insertByDate(_, _)
insertByDate(rs, r) ==
    IF rs = <<>> THEN <<r>>
    ELSE IF localeCompare(rs[Len(rs)].date, r.date) <= 0
         THEN Append(rs, r)
         ELSE Append(insertByDate(SubSeq(rs, 1, Len(rs) - 1), r), rs[Len(rs)])

sortByDateSkipped(rs) == rs

\* rs.sort((a, b) => a.date.localeCompare(b.date))
RECURSIVE sortByDate(_)
sortByDate(rs) ==
    IF rs = <<>> THEN <<>>
    ELSE insertByDate(sortByDate(SubSeq(rs, 1, Len(rs) - 1)), rs[Len(rs)])

findIndexNever(rs, date) == 0

\* rs.findIndex((r) => r.date === date), counted from 1; 0 for -1.
findIndex(rs, date) ==
    IF \E i \in 1..Len(rs) : rs[i].date = date
    THEN CHOOSE i \in 1..Len(rs) :
             rs[i].date = date /\ \A j \in 1..(i - 1) : rs[j].date # date
    ELSE 0

\* rs.filter((r) => r.id !== id)
filterById(rs, id) ==
    LET keep(r) == r.id # id
    IN  SelectSeq(rs, keep)

\* The submit handler of the record form, whose fields hold date,
\* startTime, endTime and dayType.  The k-th id crypto.randomUUID()
\* hands out is k.
handleAddRecord(date, startTime, endTime, dayType) ==
    IF date = <<>> \/ startTime = <<>> \/ endTime = <<>>
    THEN UNCHANGED vars
    ELSE LET existingRecordIndex == findIndex(records, date)
             newRecord ==
                 [ id |-> IF existingRecordIndex > 0
                          THEN records[existingRecordIndex].id
                          ELSE uuidsDrawn + 1,
                   date |-> date,
                   startTime |-> startTime,
                   endTime |-> endTime,
                   dayType |-> dayType ]
             updatedRecords ==
                 IF existingRecordIndex > 0
                 THEN [records EXCEPT ![existingRecordIndex] = newRecord]
                 ELSE Append(records, newRecord)
         IN  /\ existingRecordIndex = 0 => uuidsDrawn < MaxUuid
             /\ uuidsDrawn' = IF existingRecordIndex > 0
                              THEN uuidsDrawn ELSE uuidsDrawn + 1
             /\ records' = sortByDate(updatedRecords)
             /\ dashboardStats' =
                    computeDashboardStats(records', settings, today, tzOffset)
             /\ UNCHANGED <<settings, tzOffset, today, nowMins,
                            realTimeStatus, call, ret>>

\* The delete button of the record with this id; confirmed is the
\* answer to window.confirm.
handleDeleteRecord(id, confirmed) ==
    IF confirmed
    THEN /\ records' = filterById(records, id)
         /\ dashboardStats' =
                computeDashboardStats(records', settings, today, tzOffset)
         /\ UNCHANGED <<settings, uuidsDrawn, tzOffset, today, nowMins,
                        realTimeStatus, call, ret>>
    ELSE UNCHANGED vars

\* The change handler of the settings inputs: name, type and value are
\* those of the input element.
handleSettingsChange(name, type, value) ==
    /\ settings' = [settings EXCEPT
                        ![name] = IF type = "number" THEN Number(value) ELSE value]
    /\ dashboardStats' =
           computeDashboardStats(records, settings', today, tzOffset)
    /\ realTimeStatus' = computeRealTimeStatus(nowMins, settings')
    /\ UNCHANGED <<records, uuidsDrawn, tzOffset, today, nowMins, call, ret>>

\* The interval callback, setNow(new Date()), when the minute advances.
Tick ==
    /\ nowMins < 1439
    /\ nowMins' = nowMins + 1
    /\ realTimeStatus' = computeRealTimeStatus(nowMins', settings)
    /\ UNCHANGED <<records, settings, uuidsDrawn, dashboardStats, tzOffset,
                   today, call, ret>>

-----------------------------------------------------------------------------
(* Inputs.                                                                 *)

\* Hosts west and east of Greenwich: New York (EST) and Beijing.
TzOffsets == {-300, 480}

Today == IsoDate(2025, 1, 15)

\* Monday and Saturday of the current month, a Saturday of the month before.
FormDates == {IsoDate(2025, 1, 6), IsoDate(2025, 1, 11), IsoDate(2024, 12, 28)}

\* start and end of the record form
FormTimes ==
    { <<HHMM(9, 0), HHMM(17, 30)>>,   \* 7 h net on a default normal day
      <<HHMM(8, 0), HHMM(19, 0)>> }   \* 9 h net on a default normal day

\* Submissions the handler turns away: a field left empty.
EmptyFieldForms ==
    { <<<<>>, HHMM(9, 0), HHMM(17, 30)>>,
      <<IsoDate(2025, 1, 6), HHMM(9, 0), <<>>>> }

DayTypes == {"normal", "overtime"}

\* Edits of the settings form: <<name, type, value>>.
SettingsEdits ==
    { <<"requiredDailyHours", "number", String(7)>>,
      <<"requiredDailyHours", "number", String(8)>>,
      <<"normalDinnerStart", "time", HHMM(8, 0)>>,
      <<"normalDinnerStart", "time", HHMM(17, 30)>> }

ClockEdits ==
    { <<"requiredStart", "time", HHMM(9, 0)>>,
      <<"requiredStart", "time", HHMM(18, 0)>>,
      <<"requiredStart", "time", <<>>>>,
      <<"requiredEnd", "time", HHMM(17, 30)>>,
      <<"requiredEnd", "time", HHMM(8, 0)>> }

-----------------------------------------------------------------------------
(* Spec: the record list, the settings and the dashboard.                  *)

Init ==
    /\ records = <<>>
    /\ settings = DEFAULT_SETTINGS
    /\ uuidsDrawn = 0
    /\ tzOffset \in TzOffsets
    /\ today = Today
    /\ dashboardStats = computeDashboardStats(records, settings, today, tzOffset)
    /\ nowMins = 0
    /\ realTimeStatus = computeRealTimeStatus(nowMins, settings)
    /\ call = <<>>
    /\ ret = <<>>

AddRecord ==
    \/ \E date \in FormDates, times \in FormTimes, dayType \in DayTypes :
           handleAddRecord(date, times[1], times[2], dayType)
    \/ \E f \in EmptyFieldForms, dayType \in DayTypes :
           handleAddRecord(f[1], f[2], f[3], dayType)

DeleteRecord ==
    \E i \in 1..Len(records), confirmed \in BOOLEAN :
        handleDeleteRecord(records[i].id, confirmed)

ChangeSettings ==
    \E e \in SettingsEdits : handleSettingsChange(e[1], e[2], e[3])

Next == AddRecord \/ DeleteRecord \/ ChangeSettings

Spec == Init /\ [][Next]_vars

\* SpecRecords: the two record handlers alone, the settings left as
\* they are.
NextRecords == AddRecord \/ DeleteRecord

SpecRecords == Init /\ [][NextRecords]_vars

-----------------------------------------------------------------------------
(* SpecOverlap: calculateOverlapCorrected applied to every four minute     *)
(* values up to MaxMinute.                                                 *)

InitApp ==
    /\ records = <<>>
    /\ settings = DEFAULT_SETTINGS
    /\ uuidsDrawn = 0
    /\ tzOffset = 480
    /\ today = Today
    /\ dashboardStats = computeDashboardStats(records, settings, today, tzOffset)
    /\ nowMins = 0
    /\ realTimeStatus = computeRealTimeStatus(nowMins, settings)

InitOverlap ==
    /\ InitApp
    /\ call \in (0..MaxMinute) \X (0..MaxMinute) \X (0..MaxMinute) \X (0..MaxMinute)
    /\ ret = <<>>

CallOverlap ==
    /\ ret = <<>>
    /\ ret' = <<calculateOverlapCorrected(call[1], call[2], call[3], call[4])>>
    /\ UNCHANGED <<records, settings, uuidsDrawn, dashboardStats, tzOffset,
                   today, nowMins, realTimeStatus, call>>

SpecOverlap == InitOverlap /\ [][CallOverlap]_vars

-----------------------------------------------------------------------------
(* SpecHours: calculateWorkHours applied to one record under settings      *)
(* whose break windows may be inverted, empty or overlapping.              *)

HoursTimes ==
    {HHMM(8, 0), HHMM(9, 0), HHMM(12, 0), HHMM(13, 30), HHMM(17, 30), HHMM(20, 0)}

HoursSettings ==
    { [DEFAULT_SETTINGS EXCEPT
           !.normalLunchStart = ls, !.normalLunchEnd = le,
           !.normalDinnerStart = ds, !.normalDinnerEnd = de,
           !.overtimeLunchStart = os, !.overtimeLunchEnd = oe] :
      ls \in {HHMM(12, 0), HHMM(13, 30)},
      le \in {HHMM(13, 30), HHMM(12, 0)},
      ds \in {HHMM(17, 30), HHMM(12, 0)},
      de \in {HHMM(18, 0), HHMM(17, 30)},
      os \in {HHMM(12, 0), <<>>},
      oe \in {HHMM(13, 30), HHMM(12, 0)} }

InitHours ==
    /\ records = <<>>
    /\ settings \in HoursSettings
    /\ uuidsDrawn = 0
    /\ tzOffset = 480
    /\ today = Today
    /\ dashboardStats = computeDashboardStats(records, settings, today, tzOffset)
    /\ nowMins = 0
    /\ realTimeStatus = computeRealTimeStatus(nowMins, settings)
    /\ call \in [ id : {1}, date : {Today}, startTime : HoursTimes,
                  endTime : HoursTimes, dayType : DayTypes ]
    /\ ret = <<>>

CallHours ==
    /\ ret = <<>>
    /\ ret' = <<calculateWorkHours(call, settings)>>
    /\ UNCHANGED <<records, settings, uuidsDrawn, dashboardStats, tzOffset,
                   today, nowMins, realTimeStatus, call>>

SpecHours == InitHours /\ [][CallHours]_vars

-----------------------------------------------------------------------------
(* SpecClock: the clock advancing through one day while the required       *)
(* attendance window is edited.                                            *)

InitClock ==
    /\ records = <<>>
    /\ settings = DEFAULT_SETTINGS
    /\ uuidsDrawn = 0
    /\ tzOffset = 480
    /\ today = Today
    /\ dashboardStats = computeDashboardStats(records, settings, today, tzOffset)
    /\ nowMins \in 0..1439
    /\ realTimeStatus = computeRealTimeStatus(nowMins, settings)
    /\ call = <<>>
    /\ ret = <<>>

ChangeClockSettings ==
    \E e \in ClockEdits : handleSettingsChange(e[1], e[2], e[3])

NextClock == Tick \/ ChangeClockSettings

SpecClock == InitClock /\ [][NextClock]_vars

-----------------------------------------------------------------------------
(* Vocabulary of the properties, independent of the operators above.       *)

Year(dateStr) == Number(SubSeq(dateStr, 1, 4))
Month(dateStr) == Number(SubSeq(dateStr, 6, 7))
Day(dateStr) == Number(SubSeq(dateStr, 9, 10))

\* The record's date lies in the year and month of the reference date.
InReferenceMonth(r) == Year(r.date) = Year(today) /\ Month(r.date) = Month(today)

\* The weekday of the calendar date the string names (0 = Sunday).
CalendarWeekday(dateStr) ==
    (DaysFromCivil(Year(dateStr), Month(dateStr), Day(dateStr)) + 4) % 7

IsWeekendDate(dateStr) == CalendarWeekday(dateStr) \in {0, 6}

\* The sum of the net hours of the records at the positions in idx.
RECURSIVE HoursAt(_)
HoursAt(idx) ==
    IF idx = {} THEN RatInt(0)
    ELSE LET i == CHOOSE k \in idx : TRUE
         IN  RatAdd(calculateWorkHours(records[i], settings), HoursAt(idx \ {i}))

NormalInMonth ==
    {i \in 1..Len(records) :
        InReferenceMonth(records[i]) /\ records[i].dayType = "normal"}

OvertimeInMonth ==
    {i \in 1..Len(records) :
        InReferenceMonth(records[i]) /\ records[i].dayType = "overtime"}

-----------------------------------------------------------------------------
(* Properties of calculateWorkHours (SpecHours).                           *)

\* C1: the net hours calculateWorkHours returns are never negative,
\* whatever the record and whatever the break windows, inverted or
\* overlapping ones included.
NetHoursNeverNegative ==
    ret # <<>> => RatLe(RatInt(0), ret[1])

\* The net hours of an overtime record are never negative: a single
\* break window cannot cover more than the work interval.
OvertimeHoursNeverNegative ==
    (ret # <<>> /\ call.dayType = "overtime") => RatLe(RatInt(0), ret[1])

\* C2: the net hours of an overtime record never exceed 8.
OvertimeNeverExceedsEight ==
    (ret # <<>> /\ call.dayType = "overtime") => RatLe(ret[1], RatInt(8))

\* 08:00-20:00 overtime under the default settings: 630 minutes, capped.
OvertimeCapWitness ==
    /\ ret = <<RatInt(8)>>
    /\ settings = DEFAULT_SETTINGS
    /\ call.dayType = "overtime"
    /\ call.startTime = HHMM(8, 0)
    /\ call.endTime = HHMM(20, 0)

\* The hours the specified algorithm gives for minute values.
SpecifiedHours(dayType, start, end, lunch, dinner, overtimeLunch) ==
    IF end <= start THEN RatInt(0)
    ELSE IF dayType = "normal"
    THEN Rat(end - start
                 - Max(0, Min(end, lunch[2]) - Max(start, lunch[1]))
                 - Max(0, Min(end, dinner[2]) - Max(start, dinner[1])), 60)
    ELSE RatMin(RatInt(8),
                Rat(end - start
                        - Max(0, Min(end, overtimeLunch[2])
                                 - Max(start, overtimeLunch[1])), 60))

\* C4: calculateWorkHours returns what the specified algorithm gives: 0
\* when end <= start, else the duration less the normal lunch and dinner
\* overlaps for a normal record, and the duration less the overtime
\* lunch overlap, capped at 8, for an overtime record; 09:00-17:30 normal
\* under the default settings is 7 h and 08:00-20:00 overtime is 8 h.
HoursAgreeWithAlgorithm ==
    ret # <<>> =>
        /\ ret[1] =
               SpecifiedHours(
                   call.dayType,
                   timeToMinutes(call.startTime),
                   timeToMinutes(call.endTime),
                   <<timeToMinutes(settings.normalLunchStart),
                     timeToMinutes(settings.normalLunchEnd)>>,
                   <<timeToMinutes(settings.normalDinnerStart),
                     timeToMinutes(settings.normalDinnerEnd)>>,
                   <<timeToMinutes(settings.overtimeLunchStart),
                     timeToMinutes(settings.overtimeLunchEnd)>>)
        /\ (/\ settings = DEFAULT_SETTINGS
            /\ call.dayType = "normal"
            /\ call.startTime = <<"0", "9", ":", "0", "0">>
            /\ call.endTime = <<"1", "7", ":", "3", "0">>)
               => ret[1] = [num |-> 7, den |-> 1]
        /\ (/\ settings = DEFAULT_SETTINGS
            /\ call.dayType = "overtime"
            /\ call.startTime = <<"0", "8", ":", "0", "0">>
            /\ call.endTime = <<"2", "0", ":", "0", "0">>)
               => ret[1] = [num |-> 8, den |-> 1]

\* 09:00-17:30 normal under the default settings has been computed.
NormalDayWitness ==
    /\ ret = <<RatInt(7)>>
    /\ settings = DEFAULT_SETTINGS
    /\ call.dayType = "normal"
    /\ call.startTime = HHMM(9, 0)
    /\ call.endTime = HHMM(17, 30)

-----------------------------------------------------------------------------
(* Properties of calculateOverlapCorrected (SpecOverlap).                  *)

\* C3: the overlap function returns max(0, min(e1, e2) - max(s1, s2)): 0
\* for disjoint or touching intervals, 0 when either interval is
\* inverted, b - a for overlap(a, b, a, b) with a <= b, never negative.
OverlapIsExact ==
    ret # <<>> =>
        LET s1 == call[1]
            e1 == call[2]
            s2 == call[3]
            e2 == call[4]
        IN  /\ ret[1] = Max(0, Min(e1, e2) - Max(s1, s2))
            /\ ret[1] >= 0
            /\ (e1 <= s2 \/ e2 <= s1) => ret[1] = 0
            /\ (e1 < s1 \/ e2 < s2) => ret[1] = 0
            /\ (s1 = s2 /\ e1 = e2 /\ s1 <= e1) => ret[1] = e1 - s1

\* [1, 4) and [2, 5) share two minutes.
OverlapWitness == call = <<1, 4, 2, 5>> /\ ret = <<2>>

-----------------------------------------------------------------------------
(* Properties of the record list (SpecRecords).                            *)

AtMostOneRecordPerDate ==
    \A i, j \in 1..Len(records) : records[i].date = records[j].date => i = j

\* A submission for a date that has a record keeps the number of
\* records and leaves, for that date, the record's id with the form's
\* start, end and day type.
ResubmissionReplaces ==
    \A date \in FormDates :
        (\E i \in 1..Len(records) : records[i].date = date) =>
            \A times \in FormTimes, dayType \in DayTypes :
                handleAddRecord(date, times[1], times[2], dayType)
                => /\ Len(records') = Len(records)
                   /\ \A i \in 1..Len(records) :
                          records[i].date = date =>
                              \E j \in 1..Len(records') :
                                  records'[j] = [ id |-> records[i].id,
                                                  date |-> date,
                                                  startTime |-> times[1],
                                                  endTime |-> times[2],
                                                  dayType |-> dayType ]

\* C5: the record list holds at most one record per date, and a
\* submission for a date that has a record replaces that record's start,
\* end and day type, keeps its id and keeps the number of records.
OneRecordPerDate ==
    /\ []AtMostOneRecordPerDate
    /\ [][ResubmissionReplaces]_vars

\* A record has been replaced: the first id drawn now sits on a record
\* that differs from the first form submitted, beside a second record.
ResubmittedWitness ==
    /\ Len(records) = 2
    /\ uuidsDrawn = 2
    /\ \E i \in 1..2 :
           /\ records[i].id = 1
           /\ records[i].date = IsoDate(2025, 1, 11)
           /\ records[i].dayType = "overtime"
           /\ records[i].startTime = HHMM(8, 0)
    /\ \E i \in 1..2 :
           /\ records[i].id = 2
           /\ records[i].date = IsoDate(2025, 1, 6)

SortedByDate ==
    \A i, j \in 1..Len(records) :
        i < j => DateParse(records[i].date) < DateParse(records[j].date)

\* A confirmed deletion takes out the record with the id and nothing else.
DeletionRemovesExactlyOne ==
    \A i \in 1..Len(records) :
        handleDeleteRecord(records[i].id, TRUE)
        => records' = SubSeq(records, 1, i - 1)
                          \o SubSeq(records, i + 1, Len(records))

\* C10: the record list is sorted by date in ascending order, and a
\* deletion removes exactly the record with the given id, the others
\* staying as they are and in their order.
SortedAndDeletionExact ==
    /\ []SortedByDate
    /\ [][DeletionRemovesExactlyOne]_vars

\* Three records, submitted latest date first, stand in date order.
SortedWitness ==
    /\ Len(records) = 3
    /\ records[1].date = IsoDate(2024, 12, 28) /\ records[1].id = 3
    /\ records[2].date = IsoDate(2025, 1, 6) /\ records[2].id = 2
    /\ records[3].date = IsoDate(2025, 1, 11) /\ records[3].id = 1

-----------------------------------------------------------------------------
(* Properties of the dashboard (Spec).                                     *)

\* weekendOvertimeHours never exceeds totalOvertimeHours.
WeekendAtMostTotal ==
    RatLe(dashboardStats.weekendOvertimeHours, dashboardStats.totalOvertimeHours)

\* C6: weekendOvertimeHours is at most totalOvertimeHours, the weekend
\* sum ranging over the overtime records dated on a Saturday or Sunday:
\* a record dated on a weekday and tagged overtime adds to
\* totalOvertimeHours only.
WeekendIsSaturdaySundaySubset ==
    /\ WeekendAtMostTotal
    /\ dashboardStats.weekendOvertimeHours =
           HoursAt({i \in OvertimeInMonth : IsWeekendDate(records[i].date)})

\* C7: deficitHours is max(0, totalWorkedDays * requiredDailyHours -
\* totalNormalHours) over the normal records of the current month: never
\* negative, 0 when the normal hours reach the required total, 0 with
\* avgDailyHours 0 when there is no normal record; normal days of 7 h
\* and 9 h with 8 required give deficit 0 and average 8.
DeficitIsShortfall ==
    LET days == Cardinality(NormalInMonth)
        required == RatInt(days * settings.requiredDailyHours)
        worked == HoursAt(NormalInMonth)
        hoursOf(i) == calculateWorkHours(records[i], settings)
    IN  /\ dashboardStats.totalWorkedDays = days
        /\ dashboardStats.deficitHours =
               RatMax(RatInt(0), RatSub(required, worked))
        /\ RatLe(RatInt(0), dashboardStats.deficitHours)
        /\ RatLe(required, worked) => dashboardStats.deficitHours = RatInt(0)
        /\ days = 0 =>
               /\ dashboardStats.deficitHours = RatInt(0)
               /\ dashboardStats.avgDailyHours = RatInt(0)
        /\ (/\ settings.requiredDailyHours = 8
            /\ \E i, j \in NormalInMonth :
                   /\ NormalInMonth = {i, j}
                   /\ hoursOf(i) = RatInt(7)
                   /\ hoursOf(j) = RatInt(9))
               => /\ dashboardStats.deficitHours = RatInt(0)
                  /\ dashboardStats.avgDailyHours = RatInt(8)

\* Two normal days of 7 h and 9 h in the current month, after an overtime
\* record of the month before; 8 hours required.
DeficitWitness ==
    /\ settings = DEFAULT_SETTINGS
    /\ Len(records) = 3
    /\ OvertimeInMonth = {} /\ Cardinality(NormalInMonth) = 2
    /\ records[1].dayType = "overtime"
    /\ dashboardStats.avgDailyHours = RatInt(8)
    /\ dashboardStats.deficitHours = RatInt(0)

\* The records of the reference month, in their order.
ReferenceMonthRecords(rs) ==
    LET inMonth(r) == InReferenceMonth(r)
    IN  SelectSeq(rs, inMonth)

\* C8: a step that adds, changes or removes only records dated outside
\* the reference month leaves the five dashboard fields as they were.
OtherMonthsDoNotCount ==
    [][(/\ records' # records
        /\ ReferenceMonthRecords(records') = ReferenceMonthRecords(records))
       => dashboardStats' = dashboardStats]_vars

\* A Saturday overtime record of the month before stands beside a normal
\* record of the current month and counts nowhere.
OtherMonthWitness ==
    /\ Len(records) = 2
    /\ records[1].date = IsoDate(2024, 12, 28)
    /\ records[1].dayType = "overtime"
    /\ records[2].dayType = "normal"
    /\ dashboardStats.totalWorkedDays = 1
    /\ dashboardStats.totalOvertimeHours = RatInt(0)
    /\ dashboardStats.weekendOvertimeHours = RatInt(0)

-----------------------------------------------------------------------------
(* Properties of the clock status (SpecClock).                             *)

\* C9: the status is the countdown to the start iff now < requiredStart,
\* with requiredStart - now remaining; the countdown to the end iff
\* requiredStart <= now < requiredEnd, with requiredEnd - now remaining;
\* the after-shift message otherwise; a remaining time shown is positive.
ClockStatusIsExact ==
    LET requiredStart == timeToMinutes(settings.requiredStart)
        requiredEnd == timeToMinutes(settings.requiredEnd)
        remaining == timeToMinutes(realTimeStatus.time)
    IN  /\ realTimeStatus.text \in {"until-start", "until-end", "after-end"}
        /\ realTimeStatus.text = "until-start" <=> nowMins < requiredStart
        /\ realTimeStatus.text = "until-end"
               <=> (requiredStart <= nowMins /\ nowMins < requiredEnd)
        /\ realTimeStatus.text = "until-start"
               => (remaining = requiredStart - nowMins /\ remaining > 0)
        /\ realTimeStatus.text = "until-end"
               => (remaining = requiredEnd - nowMins /\ remaining > 0)

\* 10:00 after the required start was moved to 18:00: eight hours to go.
ClockWitness ==
    /\ nowMins = 600
    /\ settings.requiredStart = HHMM(18, 0)
    /\ realTimeStatus = [text |-> "until-start", time |-> <<"0", "8", ":", "0", "0">>]

=============================================================================
